---- MODULE Spec2Model ----
EXTENDS FiniteSets, Integers, Naturals, Sequences, TLC

\* ------------------------------------------------------------------
\* findNodeModules (src/src/scanner.ts:48-121)
\* The file system is a fixed tree of directories.  A directory is a
\* path relative to the root (the root itself is <<>>); the root has its
\* own name rootName.  Directories whose listing fails (nonexistent,
\* permission denied) are in unreadable; node_modules entries whose
\* stat() fails are in statFail.
\* ------------------------------------------------------------------

MaxDirs == 3
MaxConc == 2

Names == {"a", ".h", "node_modules"}
RootNames == {"r", "node_modules"}
Target == "node_modules"

Workers == 1..(MaxConc + 1)

\* the directory trees of at most n directories below the root, named from ns
RECURSIVE TreesOf(_, _)
TreesOf(n, ns) ==
  IF n = 0 THEN {{}}
  ELSE LET prev == TreesOf(n - 1, ns)
       IN prev \cup UNION {{t \cup {p \o <<nm>>} : p \in t \cup {<<>>}, nm \in ns} : t \in prev}

TreesUpTo(n) == TreesOf(n, Names)

VARIABLES
  tree, rootName, unreadable, statFail, concurrency,
  queue, activeWorkers, results, found, resolved, mainPc, ret,
  wPc, wPath, wRest, wSubs

scanVars == <<tree, rootName, unreadable, statFail, concurrency,
              queue, activeWorkers, results, found, resolved, mainPc, ret,
              wPc, wPath, wRest, wSubs>>

\* getDirectorySizes (src/src/scanner.ts:12-46): the input paths, the
\* file system's du -sk outcome of each path (its figure, if du prints
\* one, and whether du exits 0), whether the shell command cannot be spawned, and the result
VARIABLES gPc, dirPaths, duKb, spawnFail, sizes

sizeVars == <<gPc, dirPaths, duKb, spawnFail, sizes>>

\* sortByAge / sortBySize / filterByAge (src/src/scanner.ts:123-128,
\* src/unnamed/part_000:82-84, 143-149): arrays live in a heap of
\* array objects; pRef is the array a call returns, pOrig the input's
\* contents before the call
VARIABLES pPc, pOp, heap, pRef, pOrig, pDesc, pDays, pNow

pipeVars == <<pPc, pOp, heap, pRef, pOrig, pDesc, pDays, pNow>>

\* cleanDirectories (src/unnamed/part_000:119-141): the batch, the state
\* of each path on disk, and what the function reports
VARIABLES cPc, cRecs, cFs, cDisk, cFreed, cCount, cFailures

cleanVars == <<cPc, cRecs, cFs, cDisk, cFreed, cCount, cFailures>>

vars == <<scanVars, sizeVars, pipeVars, cleanVars>>

Range(sq) == {sq[i] : i \in DOMAIN sq}

IsHiddenExact(n) == n = "."

IsHidden(n) == SubSeq(n, 1, 1) = "."

\* the orderings of a sequence: its elements in every order
RECURSIVE PermsOf(_)
PermsOf(S) ==
  IF S = {} THEN {<<>>}
  ELSE UNION {{<<x>> \o r : r \in PermsOf(S \ {x})} : x \in S}

Orderings(sq) == {[i \in DOMAIN sq |-> sq[pm[i]]] : pm \in PermsOf(DOMAIN sq)}

\* the names of the subdirectories of p
ChildNames(p) == {d[Len(d)] : d \in {e \in tree : Len(e) = Len(p) + 1 /\ SubSeq(e, 1, Len(p)) = p}}

ListingIgnoringErrors(p) == PermsOf(ChildNames(p))

\* readdir(currentPath): the directory's children in the order the file
\* system returns them (any order), or failure (no entries)
Listing(p) ==
  IF p \in unreadable THEN {<<>>}
  ELSE PermsOf(ChildNames(p))

RECURSIVE ScanEntriesNoPrune(_, _, _)
ScanEntriesNoPrune(p, rest, subs) ==
  IF rest = <<>> THEN [kind |-> "end", rest |-> <<>>, subs |-> subs]
  ELSE LET n == Head(rest) IN
    IF IsHidden(n) THEN ScanEntriesNoPrune(p, Tail(rest), subs)
    ELSE IF n = Target THEN [kind |-> "stat", rest |-> rest, subs |-> Append(subs, p \o <<n>>)]
    ELSE ScanEntriesNoPrune(p, Tail(rest), Append(subs, p \o <<n>>))

\* the for-loop of processPath, run synchronously until it reaches a
\* node_modules entry (await stat) or the end of the entries
RECURSIVE ScanEntries(_, _, _)
ScanEntries(p, rest, subs) ==
  IF rest = <<>> THEN [kind |-> "end", rest |-> <<>>, subs |-> subs]
  ELSE LET n == Head(rest) IN
    IF IsHidden(n) THEN ScanEntries(p, Tail(rest), subs)
    ELSE IF n = Target THEN [kind |-> "stat", rest |-> rest, subs |-> subs]
    ELSE ScanEntries(p, Tail(rest), Append(subs, p \o <<n>>))

RECURSIVE SpawnWorkersNoCount(_, _, _, _)
SpawnWorkersNoCount(pc, path, q, act) ==
  IF act < concurrency /\ q # <<>>
  THEN LET w == CHOOSE x \in Workers : pc[x] = "free"
       IN SpawnWorkersNoCount([pc EXCEPT ![w] = "readdir"], [path EXCEPT ![w] = Head(q)],
                              Tail(q), act)
  ELSE [pc |-> pc, path |-> path, q |-> q, act |-> act]

\* spawnWorkers(): each spawned worker runs synchronously up to the
\* await of its first readdir, having shifted one path off the queue
RECURSIVE SpawnWorkers(_, _, _, _)
SpawnWorkers(pc, path, q, act) ==
  IF act < concurrency /\ q # <<>>
  THEN LET w == CHOOSE x \in Workers : pc[x] = "free"
       IN SpawnWorkers([pc EXCEPT ![w] = "readdir"], [path EXCEPT ![w] = Head(q)],
                       Tail(q), act + 1)
  ELSE [pc |-> pc, path |-> path, q |-> q, act |-> act]

EmitNoCallback(res, fnd, p) == [res |-> Append(res, p), fnd |-> fnd]

\* results.push(info); onFound?.(info)
Emit(res, fnd, p) == [res |-> Append(res, p), fnd |-> Append(fnd, p)]

\* continuation of worker w after the loop of processPath reached s:
\* either suspend on stat, or push subdirs and run the worker loop
\* (shift; break => activeWorkers--, resolveAll on quiescence)
Proceed(w, s) ==
  IF s.kind = "stat"
  THEN /\ wPc' = [wPc EXCEPT ![w] = "stat"]
       /\ wRest' = [wRest EXCEPT ![w] = s.rest]
       /\ wSubs' = [wSubs EXCEPT ![w] = s.subs]
       /\ UNCHANGED <<queue, activeWorkers, resolved, wPath>>
  ELSE LET q == queue \o s.subs IN
       IF q # <<>>
       THEN /\ wPc' = [wPc EXCEPT ![w] = "readdir"]
            /\ wPath' = [wPath EXCEPT ![w] = Head(q)]
            /\ queue' = Tail(q)
            /\ wRest' = [wRest EXCEPT ![w] = <<>>]
            /\ wSubs' = [wSubs EXCEPT ![w] = <<>>]
            /\ UNCHANGED <<activeWorkers, resolved>>
       ELSE /\ wPc' = [wPc EXCEPT ![w] = "then"]
            /\ queue' = q
            /\ activeWorkers' = activeWorkers - 1
            /\ resolved' = (resolved \/ activeWorkers - 1 = 0)
            /\ wRest' = [wRest EXCEPT ![w] = <<>>]
            /\ wSubs' = [wSubs EXCEPT ![w] = <<>>]
            /\ UNCHANGED wPath

SizesIdle ==
  /\ gPc = "idle"
  /\ dirPaths = <<>>
  /\ duKb = [p \in {} |-> [kb |-> -1, ok |-> FALSE]]
  /\ spawnFail = FALSE
  /\ sizes = [p \in {} |-> 0]

PipeIdle ==
  /\ pPc = "idle"
  /\ pOp = "none"
  /\ heap = [a \in {"in", "copy"} |-> <<>>]
  /\ pRef = "in"
  /\ pOrig = <<>>
  /\ pDesc = TRUE
  /\ pDays = 0
  /\ pNow = 0

CleanIdle ==
  /\ cPc = "idle"
  /\ cRecs = <<>>
  /\ cFs = [p \in {} |-> "gone"]
  /\ cDisk = [p \in {} |-> "gone"]
  /\ cFreed = [tag |-> "num", n |-> 0]
  /\ cCount = 0
  /\ cFailures = {}

ScanInit ==
  /\ SizesIdle
  /\ PipeIdle
  /\ CleanIdle
  /\ tree \in TreesUpTo(MaxDirs)
  /\ rootName \in RootNames
  /\ unreadable \in SUBSET (tree \cup {<<>>})
  /\ statFail \in SUBSET {p \in tree : p[Len(p)] = Target}
  /\ concurrency \in 1..MaxConc
  /\ queue = << <<>> >>
  /\ activeWorkers = 0
  /\ results = <<>>
  /\ found = <<>>
  /\ resolved = FALSE
  /\ mainPc = "init"
  /\ ret = <<>>
  /\ wPc = [w \in Workers |-> "free"]
  /\ wPath = [w \in Workers |-> <<>>]
  /\ wRest = [w \in Workers |-> <<>>]
  /\ wSubs = [w \in Workers |-> <<>>]

\* findNodeModules body up to `await allDone`
Start ==
  /\ mainPc = "init"
  /\ LET s == SpawnWorkers(wPc, wPath, queue, activeWorkers) IN
       /\ wPc' = s.pc /\ wPath' = s.path /\ queue' = s.q /\ activeWorkers' = s.act
  /\ mainPc' = "waiting"
  /\ UNCHANGED <<sizeVars, pipeVars, cleanVars, tree, rootName, unreadable, statFail, concurrency,
                 results, found, resolved, ret, wRest, wSubs>>

\* the readdir awaited by processPath settles (rejection => return)
ReaddirReturn(w) ==
  /\ wPc[w] = "readdir"
  /\ \E entries \in Listing(wPath[w]) : Proceed(w, ScanEntries(wPath[w], entries, <<>>))
  /\ UNCHANGED <<sizeVars, pipeVars, cleanVars, tree, rootName, unreadable, statFail, concurrency,
                 results, found, mainPc, ret>>

\* the stat of a node_modules entry settles; a rejection propagates out
\* of processPath and worker (no try/catch), leaving the worker rejected
StatReturn(w) ==
  /\ wPc[w] = "stat"
  /\ LET fp == wPath[w] \o <<Head(wRest[w])>> IN
     IF fp \in statFail
     THEN /\ wPc' = [wPc EXCEPT ![w] = "rejected"]
          /\ UNCHANGED <<queue, activeWorkers, results, found, resolved, wPath, wRest, wSubs>>
     ELSE LET e == Emit(results, found, fp) IN
          /\ results' = e.res
          /\ found' = e.fnd
          /\ Proceed(w, ScanEntries(wPath[w], Tail(wRest[w]), wSubs[w]))
  /\ UNCHANGED <<sizeVars, pipeVars, cleanVars, tree, rootName, unreadable, statFail, concurrency, mainPc, ret>>

\* worker().then(() => { if (queue.length > 0) spawnWorkers(); })
WorkerThen(w) ==
  /\ wPc[w] = "then"
  /\ LET pc1 == [wPc EXCEPT ![w] = "free"] IN
     IF Len(queue) > 0
     THEN LET s == SpawnWorkers(pc1, wPath, queue, activeWorkers) IN
          /\ wPc' = s.pc /\ wPath' = s.path /\ queue' = s.q /\ activeWorkers' = s.act
     ELSE /\ wPc' = pc1
          /\ UNCHANGED <<wPath, queue, activeWorkers>>
  /\ UNCHANGED <<sizeVars, pipeVars, cleanVars, tree, rootName, unreadable, statFail, concurrency,
                 results, found, resolved, mainPc, ret, wRest, wSubs>>

\* await allDone; return results
Return ==
  /\ mainPc = "waiting"
  /\ resolved
  /\ mainPc' = "done"
  /\ ret' = results
  /\ UNCHANGED <<sizeVars, pipeVars, cleanVars, tree, rootName, unreadable, statFail, concurrency,
                 queue, activeWorkers, results, found, resolved,
                 wPc, wPath, wRest, wSubs>>

ScanNext ==
  \/ Start
  \/ \E w \in Workers : ReaddirReturn(w)
  \/ \E w \in Workers : StatReturn(w)
  \/ \E w \in Workers : WorkerThen(w)
  \/ Return

Spec == ScanInit /\ [][ScanNext]_vars

FairSpec == Spec /\ WF_vars(Start)
            /\ WF_vars(Return)
            /\ \A w \in Workers : WF_vars(ReaddirReturn(w))
                                  /\ WF_vars(StatReturn(w))
                                  /\ WF_vars(WorkerThen(w))

\* ------------------------------------------------------------------
\* getDirectorySizes (src/src/scanner.ts:12-46)
\* echo paths | xargs -P c -I {} du -sk {} 2>/dev/null, parsed line by line
\* ------------------------------------------------------------------

MaxPaths == 2
MaxKb == 2

\* du -sk's outcome on a path: the kilobyte figure it prints (-1 for
\* none) and whether it exits 0. A directory du reads in part gets its
\* figure printed and exit status 1.
Missing == [kb |-> -1, ok |-> FALSE]

DuOutcomes == {[kb |-> k, ok |-> b] : k \in 0..MaxKb, b \in BOOLEAN} \cup {Missing}

\* JavaScript values of the size map: a number, null, NaN
Num(n) == [tag |-> "num", n |-> n]
Null == [tag |-> "null", n |-> 0]
NaN == [tag |-> "nan", n |-> 0]

Tab == "\t"

\* a character of a string is a one-character TLA+ string; a character a
\* TLA+ string cannot hold is written as its code point, e.g. "U+000B"
PathSet == {<<"a">>, <<"b", " ">>, <<" ", "a">>, <<"\\", "a">>, <<"'", "a">>,
            <<"\"", "a", "\"">>}
Digits == <<"0", "1", "2", "3", "4", "5", "6", "7", "8", "9">>

EmptyMap == [p \in {} |-> 0]

\* Map.prototype.set
MapSet(m, k, v) == [x \in DOMAIN m \cup {k} |-> IF x = k THEN v ELSE m[x]]

\* du's decimal rendering of a kilobyte count
RECURSIVE ToDecimal(_)
ToDecimal(n) ==
  IF n < 10 THEN <<Digits[n + 1]>>
  ELSE ToDecimal(n \div 10) \o <<Digits[(n % 10) + 1]>>

DigitValue(c) == CHOOSE d \in 0..9 : Digits[d + 1] = c

\* characters String.prototype.trim and parseInt skip: JS's WhiteSpace
\* (TAB, VT, FF, SP, NBSP, ZWNBSP and the Zs category) and LineTerminator
\* (LF, CR, LS, PS)
WhiteSpace == {"\t", "U+000B", "\f", " ", "U+00A0", "U+FEFF",
               "U+1680", "U+2000", "U+2001", "U+2002", "U+2003", "U+2004",
               "U+2005", "U+2006", "U+2007", "U+2008", "U+2009", "U+200A",
               "U+202F", "U+205F", "U+3000",
               "\n", "\r", "U+2028", "U+2029"}

RECURSIVE TrimStart(_)
TrimStart(cs) == IF cs # <<>> /\ cs[1] \in WhiteSpace THEN TrimStart(Tail(cs)) ELSE cs

\* parseInt(s, 10): leading white space, an optional sign, then the
\* longest run of decimal digits; NaN when there is none
RECURSIVE ParseDigits(_, _)
ParseDigits(cs, acc) ==
  IF cs = <<>> \/ cs[1] \notin Range(Digits) THEN Num(acc)
  ELSE ParseDigits(Tail(cs), acc * 10 + DigitValue(cs[1]))

ParseUnsigned(cs) ==
  IF cs = <<>> \/ cs[1] \notin Range(Digits) THEN NaN ELSE ParseDigits(cs, 0)

ParseInt(cs) ==
  LET t == TrimStart(cs) IN
  IF t # <<>> /\ t[1] = "-"
  THEN (IF ParseUnsigned(Tail(t)) = NaN THEN NaN ELSE Num(-ParseUnsigned(Tail(t)).n))
  ELSE IF t # <<>> /\ t[1] = "+" THEN ParseUnsigned(Tail(t))
  ELSE ParseUnsigned(t)

\* line.indexOf(c), -1 when absent (positions are 1-based here)
IndexOf(line, c) ==
  IF \E i \in DOMAIN line : line[i] = c
  THEN CHOOSE i \in DOMAIN line : line[i] = c /\ \A j \in 1..(i - 1) : line[j] # c
  ELSE -1

\* `echo ${input}`: the paths joined by "\n", then echo's newline
EchoInput(ps) ==
  IF ps = <<>> THEN <<"\n">>
  ELSE LET RECURSIVE J(_)
           J(qs) == IF Len(qs) = 1 THEN Head(qs) ELSE Head(qs) \o <<"\n">> \o J(Tail(qs))
       IN J(ps) \o <<"\n">>

\* isspace() and isblank() of the C locale
XSpace == {" ", "\t", "\n", "U+000B", "\f", "\r"}

\* GNU xargs read_line with -I: each call starts in state SPACE, skipping
\* white space (so blank lines give no argument); in NORM a newline ends
\* the argument, which is empty for a line of quote pairs such as '', a
\* backslash escapes the next character and ' or " opens a
\* quoted span; in QUOTE characters are literal up to the matching quote,
\* and a newline there is "unmatched quote", exiting with status 1. The
\* result holds the arguments read, in order, and whether reading
\* stopped on that error.
RECURSIVE XRead(_, _, _, _, _)
XRead(cs, st, q, cur, args) ==
  IF cs = <<>>
  THEN IF cur = <<>> THEN [args |-> args, err |-> FALSE]
       ELSE IF st = "QUOTE" THEN [args |-> args, err |-> TRUE]
       ELSE [args |-> Append(args, cur), err |-> FALSE]
  ELSE LET c == Head(cs)
           r == Tail(cs)
       IN IF st = "SPACE" /\ c \in XSpace THEN XRead(r, "SPACE", q, cur, args)
          ELSE IF st \in {"SPACE", "NORM"}
          THEN IF c = "\n"
               THEN XRead(r, "SPACE", q, <<>>, Append(args, cur))
               ELSE IF c = "\\" THEN XRead(r, "BACKSLASH", q, cur, args)
               ELSE IF c \in {"'", "\""} THEN XRead(r, "QUOTE", c, cur, args)
               ELSE XRead(r, "NORM", q, Append(cur, c), args)
          ELSE IF st = "QUOTE"
          THEN IF c = "\n" THEN [args |-> args, err |-> TRUE]
               ELSE IF c = q THEN XRead(r, "NORM", q, cur, args)
               ELSE XRead(r, "QUOTE", q, Append(cur, c), args)
          ELSE XRead(r, "NORM", q, Append(cur, c), args)

\* what xargs reads from `echo ${input}`
XArgs(ps) == XRead(EchoInput(ps), "SPACE", "'", <<>>, <<>>)

\* du's outcome for an argument; a file name not listed is absent, and du
\* rejects the empty name ("invalid zero-length file name", exit 1)
DuKbOf(s) == IF s # <<>> /\ s \in DOMAIN duKb THEN duKb[s] ELSE Missing

\* the line du -sk prints for argument p
DuLine(p) == ToDecimal(DuKbOf(p).kb) \o <<Tab>> \o p

\* the possible stdouts of the pipeline: one du line per argument that
\* names an existing path, in the order the parallel du processes
\* (xargs -P) finish
XargsOutput(ps) ==
  LET as == XArgs(ps).args
      ex == SelectSeq(as, LAMBDA p : DuKbOf(p).kb >= 0)
  IN Orderings([i \in 1..Len(ex) |-> DuLine(ex[i])])

\* xargs exits 123 when some du invocation it ran exits with status 1
\* (also when it then dies on an unmatched quote: its exit handler waits
\* for the children), else 1 on an unmatched quote, else 0
XargsExit(ps) ==
  IF \E i \in DOMAIN XArgs(ps).args : ~DuKbOf(XArgs(ps).args[i]).ok THEN 123
  ELSE IF XArgs(ps).err THEN 1
  ELSE 0

\* for (const line of output.trim().split("\n")) { ... results.set(path, kb * 1024) }
Newline == "\n"

\* the text of the lines, each ended by a newline (du's output)
RECURSIVE JoinLines(_)
JoinLines(lines) ==
  IF lines = <<>> THEN <<>> ELSE Head(lines) \o <<Newline>> \o JoinLines(Tail(lines))

RECURSIVE TrimEnd(_)
TrimEnd(cs) ==
  IF cs # <<>> /\ cs[Len(cs)] \in WhiteSpace THEN TrimEnd(SubSeq(cs, 1, Len(cs) - 1)) ELSE cs

\* String.prototype.trim
Trim(cs) == TrimEnd(TrimStart(cs))

\* String.prototype.split("\n")
RECURSIVE SplitLines(_)
SplitLines(cs) ==
  IF \E i \in DOMAIN cs : cs[i] = Newline
  THEN LET k == IndexOf(cs, Newline)
       IN <<SubSeq(cs, 1, k - 1)>> \o SplitLines(SubSeq(cs, k + 1, Len(cs)))
  ELSE <<cs>>

\* the body of the loop over the lines
RECURSIVE ParseLineSeq(_, _)
ParseLineSeq(lines, m) ==
  IF lines = <<>> THEN m
  ELSE LET line == Head(lines)
           tabIndex == IndexOf(line, Tab)
       IN IF line = <<>> \/ tabIndex = -1 THEN ParseLineSeq(Tail(lines), m)
          ELSE LET kb == ParseInt(SubSeq(line, 1, tabIndex - 1))
                   path == SubSeq(line, tabIndex + 1, Len(line))
               IN ParseLineSeq(Tail(lines), MapSet(m, path, IF kb = NaN THEN NaN ELSE Num(kb.n * 1024)))

\* for (const line of output.trim().split("\n")) { ... }, output being
\* the text of the du lines
ParseLines(lines, m) == ParseLineSeq(SplitLines(Trim(JoinLines(lines))), m)

\* for (const path of dirPaths) if (!results.has(path)) results.set(path, null)
RECURSIVE FillNull(_, _)
FillNull(ps, m) ==
  IF ps = <<>> THEN m
  ELSE FillNull(Tail(ps), IF Head(ps) \in DOMAIN m THEN m ELSE MapSet(m, Head(ps), Null))

DuResultsNoThrow(ps) ==
  IF spawnFail THEN {EmptyMap}
  ELSE {ParseLines(out, EmptyMap) : out \in XargsOutput(ps)}

\* the possible maps after the try block: `await $...text()` throws on
\* spawn failure or nonzero exit
DuResults(ps) ==
  IF spawnFail \/ XargsExit(ps) # 0 THEN {EmptyMap}
  ELSE {ParseLines(out, EmptyMap) : out \in XargsOutput(ps)}

GetDirectorySizes ==
  /\ gPc = "idle"
  /\ gPc' = "done"
  /\ IF Len(dirPaths) = 0 THEN sizes' = EmptyMap
     ELSE \E m \in DuResults(dirPaths) : sizes' = FillNull(dirPaths, m)
  /\ UNCHANGED <<dirPaths, duKb, spawnFail, scanVars, pipeVars, cleanVars>>

ScanIdle ==
  /\ tree = {}
  /\ rootName = "r"
  /\ unreadable = {}
  /\ statFail = {}
  /\ concurrency = 1
  /\ queue = << <<>> >>
  /\ activeWorkers = 0
  /\ results = <<>>
  /\ found = <<>>
  /\ resolved = FALSE
  /\ mainPc = "init"
  /\ ret = <<>>
  /\ wPc = [w \in Workers |-> "free"]
  /\ wPath = [w \in Workers |-> <<>>]
  /\ wRest = [w \in Workers |-> <<>>]
  /\ wSubs = [w \in Workers |-> <<>>]

\* the file names the run can touch: the input paths and the arguments
\* xargs makes of them
FsNames(ps) == (Range(ps) \cup Range(XArgs(ps).args)) \ {<<>>}

SizesInit ==
  /\ ScanIdle
  /\ PipeIdle
  /\ CleanIdle
  /\ gPc = "idle"
  /\ dirPaths \in UNION {[1..n -> PathSet] : n \in 0..MaxPaths}
  /\ duKb \in [FsNames(dirPaths) -> DuOutcomes]
  /\ spawnFail \in BOOLEAN
  /\ sizes = EmptyMap

SizesNext == GetDirectorySizes

SizesSpec == SizesInit /\ [][SizesNext]_vars

\* ------------------------------------------------------------------
\* Properties of findNodeModules
\* ------------------------------------------------------------------

IsPrefix(a, b) == Len(a) <= Len(b) /\ SubSeq(b, 1, Len(a)) = a

FullPath(p) == <<rootName>> \o p

RejectedWorker == \E w \in Workers : wPc[w] = "rejected"

\* the matches of a fixed tree, defined by recursion over the tree
RECURSIVE Matches(_)
Matches(p) ==
  IF p \in unreadable THEN {}
  ELSE UNION { IF c[Len(c)] = Target THEN {c} ELSE Matches(c) :
               c \in {d \in tree : Len(d) = Len(p) + 1 /\ SubSeq(d, 1, Len(p)) = p
                                    /\ ~IsHidden(d[Len(d)])} }

\* C1: no returned match is an ancestor or descendant of another, and no
\* returned match lies inside another node_modules directory.
C1Original ==
  /\ \A i, j \in DOMAIN results : i # j => ~IsPrefix(results[i], results[j])
  /\ \A i \in DOMAIN results :
       \A k \in 1..(Len(FullPath(results[i])) - 1) : FullPath(results[i])[k] # Target

\* C2: no match lies at or below a hidden directory strictly below the root.
C2Thm ==
  \A i \in DOMAIN results : \A k \in 1..Len(results[i]) : SubSeq(results[i][k], 1, 1) # "."

C2Witness ==
  /\ mainPc = "done"
  /\ <<".h", "node_modules">> \in tree
  /\ Len(ret) > 0

\* C3: under fair scheduling findNodeModules eventually resolves.
C3Original == <>(mainPc = "done")

\* C4: after a file-system error (here a failing stat of a matched entry)
\* the scan still reaches completion.
C4Original == RejectedWorker ~> (mainPc = "done")

\* C5: if the root cannot be listed, findNodeModules resolves to an empty
\* sequence and no worker rejects.
C5Thm ==
  (<<>> \in unreadable) => <>(mainPc = "done" /\ ret = <<>> /\ ~RejectedWorker)

C5Witness == <<>> \in unreadable /\ mainPc = "done"

\* C6: a root named node_modules is itself returned as a match.
C6Original == (rootName = Target /\ mainPc = "done") => <<>> \in Range(ret)

\* C7: the returned set of matches is determined by the tree alone, for
\* every concurrency value and interleaving, without duplicates.
C7Thm ==
  mainPc = "done" => (Range(ret) = Matches(<<>>) /\ Len(ret) = Cardinality(Range(ret)))

C7Witness == mainPc = "done" /\ concurrency = 2 /\ Len(ret) >= 2

\* C8: onFound is called exactly once per match, and the returned
\* sequence is exactly the sequence of records passed to it.
C8Thm ==
  /\ found = results
  /\ mainPc = "done" => ret = found

C8Witness == mainPc = "done" /\ Len(found) >= 1

\* ------------------------------------------------------------------
\* Properties of getDirectorySizes
\* ------------------------------------------------------------------

\* C9: every input path gets an entry: kb * 1024 for a path du reports,
\* null for a path du does not report (a nonexistent one).
C9Original ==
  (gPc = "done" /\ ~spawnFail) =>
    \A i \in DOMAIN dirPaths :
       /\ dirPaths[i] \in DOMAIN sizes
       /\ sizes[dirPaths[i]] = IF duKb[dirPaths[i]].kb < 0 THEN Null
                               ELSE Num(duKb[dirPaths[i]].kb * 1024)

\* C10: when the bulk size pass fails entirely (spawn failure or nonzero
\* exit), getDirectorySizes returns normally with every input path null.
C10Thm ==
  (gPc = "done" /\ (spawnFail \/ XargsExit(dirPaths) # 0)) =>
    \A i \in DOMAIN dirPaths :
       dirPaths[i] \in DOMAIN sizes /\ sizes[dirPaths[i]] = Null

C10Witness ==
  /\ gPc = "done"
  /\ ~spawnFail
  /\ XargsExit(dirPaths) = 1
  /\ \A i \in DOMAIN dirPaths : duKb[dirPaths[i]].ok

\* ------------------------------------------------------------------
\* Result pipeline: sortByAge (src/src/scanner.ts:123-128), sortBySize
\* (src/unnamed/part_000:82-84), filterByAge (src/unnamed/part_000:143-149)
\* A record is [path, t (modifiedAt in ms), size]; input records carry
\* their input position as path.
\* ------------------------------------------------------------------

MaxRecs == 3
MaxDays == 2

DayMs == 24 * 60 * 60 * 1000
\* whole days, and one time 1 ms past a whole day
Times == {k * DayMs : k \in 0..MaxDays} \cup {1}
NowValues == {MaxDays * DayMs, MaxDays * DayMs + 1}
\* sizes from getDirectorySizes: null, NaN (a du line whose figure
\* parseInt cannot read) or a byte count
SizeValues == {Null, NaN, Num(1024)}

RecordSeqs(n) ==
  {[i \in 1..n |-> [path |-> i, t |-> ts[i], size |-> ss[i]]] :
     ts \in [1..n -> Times], ss \in [1..n -> SizeValues]}

\* r.size ?? 0 (?? replaces only null and undefined)
SizeOrZero(sz) == IF sz = Null THEN Num(0) ELSE sz

\* x - y and x + y on numbers, NaN when either is NaN
JsSub(x, y) == IF x = NaN \/ y = NaN THEN NaN ELSE Num(x.n - y.n)
JsAdd(x, y) == IF x = NaN \/ y = NaN THEN NaN ELSE Num(x.n + y.n)

AgeCmpNoNegate(desc, a, b) == a.t - b.t

\* (a, b) => { const diff = a.modifiedAt.getTime() - b.modifiedAt.getTime();
\*             return descending ? -diff : diff; }
AgeCmp(desc, a, b) == LET diff == a.t - b.t IN IF desc THEN -diff ELSE diff

\* (a, b) => (b.size ?? 0) - (a.size ?? 0)
SizeCmp(a, b) == JsSub(SizeOrZero(b.size), SizeOrZero(a.size))

Cmp(kind, desc, a, b) == IF kind = "age" THEN Num(AgeCmp(desc, a, b)) ELSE SizeCmp(a, b)

\* SortCompare: the comparator's result, NaN read as +0
SortCompare(kind, desc, a, b) == IF Cmp(kind, desc, a, b) = NaN THEN 0 ELSE Cmp(kind, desc, a, b).n

\* the comparator is consistent on the elements of sq (ECMAScript
\* 23.1.3.30): antisymmetric, and "less" and "equal" are transitive
ConsistentCmp(kind, desc, sq) ==
  \A a, b, c \in Range(sq) :
    /\ (SortCompare(kind, desc, a, b) < 0) = (SortCompare(kind, desc, b, a) > 0)
    /\ (SortCompare(kind, desc, a, b) = 0) = (SortCompare(kind, desc, b, a) = 0)
    /\ (SortCompare(kind, desc, a, b) < 0 /\ SortCompare(kind, desc, b, c) < 0)
         => SortCompare(kind, desc, a, c) < 0
    /\ (SortCompare(kind, desc, a, b) = 0 /\ SortCompare(kind, desc, b, c) = 0)
         => SortCompare(kind, desc, a, c) = 0

\* Array.prototype.sort is stable (ECMAScript 2019): a stable insertion
\* sort that moves an element left past elements comparing greater than it
RECURSIVE InsertSorted(_, _, _, _)
InsertSorted(kind, desc, sorted, x) ==
  IF sorted = <<>> \/ SortCompare(kind, desc, sorted[Len(sorted)], x) <= 0
  THEN Append(sorted, x)
  ELSE Append(InsertSorted(kind, desc, SubSeq(sorted, 1, Len(sorted) - 1), x),
              sorted[Len(sorted)])

RECURSIVE StableSort(_, _, _, _)
StableSort(kind, desc, sq, acc) ==
  IF sq = <<>> THEN acc
  ELSE StableSort(kind, desc, Tail(sq), InsertSorted(kind, desc, acc, Head(sq)))

\* arr.sort(cmp) sorts the array object a of heap h in place: the heaps
\* it can leave. With an inconsistent comparator the order is
\* implementation-defined: any permutation.
SortInPlace(h, a, kind, desc) ==
  IF ConsistentCmp(kind, desc, h[a])
  THEN {[h EXCEPT ![a] = StableSort(kind, desc, h[a], <<>>)]}
  ELSE {[h EXCEPT ![a] = o] : o \in Orderings(h[a])}

SpreadAlias(h, a) == [heap |-> h, ref |-> a]

\* [...results]: a new array object holding the same elements
Spread(h, a) == [heap |-> [h EXCEPT !["copy"] = h[a]], ref |-> "copy"]

FilterOldLe(h, a, cutoff) ==
  [heap |-> [h EXCEPT !["copy"] = SelectSeq(h[a], LAMBDA r : r.t <= cutoff)], ref |-> "copy"]

\* results.filter((r) => r.modifiedAt < cutoff): a new array object
FilterOld(h, a, cutoff) ==
  [heap |-> [h EXCEPT !["copy"] = SelectSeq(h[a], LAMBDA r : r.t < cutoff)], ref |-> "copy"]

PipeInit ==
  /\ ScanIdle
  /\ SizesIdle
  /\ CleanIdle
  /\ pPc = "idle"
  /\ pOp = "none"
  /\ \E n \in 0..MaxRecs : \E rs \in RecordSeqs(n) :
       /\ heap = [a \in {"in", "copy"} |-> IF a = "in" THEN rs ELSE <<>>]
       /\ pOrig = rs
  /\ pRef = "in"
  /\ pDesc = TRUE
  /\ pDays = 0
  /\ pNow = 0

\* sortByAge(results, descending)
SortByAge ==
  /\ pPc = "idle"
  /\ \E desc \in BOOLEAN :
       LET c == Spread(heap, "in") IN
       /\ heap' \in SortInPlace(c.heap, c.ref, "age", desc)
       /\ pRef' = c.ref
       /\ pDesc' = desc
  /\ pOp' = "sortByAge"
  /\ pPc' = "done"
  /\ UNCHANGED <<pOrig, pDays, pNow, scanVars, sizeVars, cleanVars>>

\* sortBySize(results)
SortBySize ==
  /\ pPc = "idle"
  /\ LET c == Spread(heap, "in") IN
       /\ heap' \in SortInPlace(c.heap, c.ref, "size", TRUE)
       /\ pRef' = c.ref
  /\ pOp' = "sortBySize"
  /\ pPc' = "done"
  /\ UNCHANGED <<pOrig, pDesc, pDays, pNow, scanVars, sizeVars, cleanVars>>

\* filterByAge(results, olderThanDays); Date.now() is read once
FilterByAge ==
  /\ pPc = "idle"
  /\ \E d \in 0..MaxDays, now \in NowValues :
       LET c == FilterOld(heap, "in", now - d * DayMs) IN
       /\ heap' = c.heap
       /\ pRef' = c.ref
       /\ pDays' = d
       /\ pNow' = now
  /\ pOp' = "filterByAge"
  /\ pPc' = "done"
  /\ UNCHANGED <<pOrig, pDesc, scanVars, sizeVars, cleanVars>>

PipeNext == SortByAge \/ SortBySize \/ FilterByAge

PipeSpec == PipeInit /\ [][PipeNext]_vars

\* C11: sortByAge(records, true) orders newest first, (records, false)
\* oldest first; equal modifiedAt keep their input order.
C11Thm ==
  (pPc = "done" /\ pOp = "sortByAge") =>
    LET out == heap[pRef] IN
    /\ Len(out) = Len(pOrig)
    /\ Range(out) = Range(pOrig)
    /\ \A i, j \in DOMAIN out :
         i < j =>
           /\ pDesc => out[i].t >= out[j].t
           /\ ~pDesc => out[i].t <= out[j].t
           /\ out[i].t = out[j].t => out[i].path < out[j].path

C11Witness ==
  /\ pPc = "done" /\ pOp = "sortByAge" /\ pDesc
  /\ Len(pOrig) = 3
  /\ \E i, j \in DOMAIN pOrig : i < j /\ pOrig[i].t = pOrig[j].t
  /\ \E i, j \in DOMAIN pOrig : pOrig[i].t < pOrig[j].t

\* C12: sortByAge, sortBySize and filterByAge leave their input array
\* unchanged.
C12Thm == pPc = "done" => heap["in"] = pOrig

C12Witness ==
  /\ pPc = "done"
  /\ pOp \in {"sortByAge", "sortBySize"}
  /\ heap[pRef] # pOrig

\* C13: filterByAge(records, d) keeps exactly the records older than d
\* days relative to one reading of now (exactly d days old is excluded),
\* in input order.
C13Thm ==
  (pPc = "done" /\ pOp = "filterByAge") =>
    heap[pRef] = SelectSeq(pOrig, LAMBDA r : pNow - r.t > pDays * DayMs)

C13Witness ==
  /\ pPc = "done" /\ pOp = "filterByAge"
  /\ \E i \in DOMAIN pOrig : pNow - pOrig[i].t = pDays * DayMs
  /\ Len(heap[pRef]) >= 1

\* ------------------------------------------------------------------
\* cleanDirectories (src/unnamed/part_000:119-141)
\* echo paths | xargs -P c -I {} rm -rf {}, run .quiet(), errors caught.
\* A file name on disk is "present", already "gone", or "locked" (rm -rf
\* cannot remove it, e.g. permission denied; rm exits 1).
\* ------------------------------------------------------------------

DiskStates == {"present", "gone", "locked"}

CleanPathSet == {<<"a">>, <<"b">>, <<"\\", "a">>, <<"'", "b">>}

\* the sequences of n distinct paths
DistinctSeqs(n) == {sq \in [1..n -> CleanPathSet] : \A i, j \in 1..n : i # j => sq[i] # sq[j]}

\* results.map((r) => r.path)
PathsOf(rs) == [i \in DOMAIN rs |-> rs[i].path]

\* the state of a path after rm -rf
RmResult(st) == IF st = "locked" THEN "locked" ELSE "gone"

\* results.reduce((sum, r) => sum + (r.size ?? 0), 0)
RECURSIVE SumFrom(_, _)
SumFrom(sum, rs) == IF rs = <<>> THEN sum ELSE SumFrom(JsAdd(sum, SizeOrZero(Head(rs).size)), Tail(rs))

SumSizes(rs) == SumFrom(Num(0), rs)

CleanInit ==
  /\ ScanIdle
  /\ SizesIdle
  /\ PipeIdle
  /\ cPc = "idle"
  /\ \E n \in 0..MaxRecs :
       \E ps \in DistinctSeqs(n) :
         /\ cRecs \in {[i \in 1..n |-> [path |-> ps[i], size |-> ss[i]]] : ss \in [1..n -> SizeValues]}
         /\ cFs \in [FsNames(ps) -> DiskStates]
  /\ cDisk = cFs
  /\ cFreed = Num(0)
  /\ cCount = 0
  /\ cFailures = {}

\* cleanDirectories(results): rm -rf runs on each argument xargs reads
\* from the paths (up to an unmatched quote, where xargs stops); a
\* nonzero exit of xargs is caught; the output of the pipeline is
\* discarded (.quiet()); then "Cleaned <results.length> directories,
\* freed <sum>"
CleanDirectories ==
  /\ cPc = "idle"
  /\ cPc' = "done"
  /\ IF Len(cRecs) = 0
     THEN UNCHANGED <<cDisk, cFreed, cCount, cFailures>>
     ELSE LET as == Range(XArgs(PathsOf(cRecs)).args) IN
          /\ cDisk' = [f \in DOMAIN cFs |-> IF f \in as THEN RmResult(cFs[f]) ELSE cFs[f]]
          /\ cFreed' = SumSizes(cRecs)
          /\ cCount' = Len(cRecs)
          /\ cFailures' = {}
  /\ UNCHANGED <<cRecs, cFs, scanVars, sizeVars, pipeVars>>

CleanNext == CleanDirectories

CleanSpec == CleanInit /\ [][CleanNext]_vars

\* C14: when some paths of a batch fail to delete, every other path is
\* still removed, and the freed space is the sum of the deleted records'
\* sizes with null counted as 0.
C14Original ==
  cPc = "done" =>
    /\ \A i \in DOMAIN cRecs : cFs[cRecs[i].path] # "locked" => cDisk[cRecs[i].path] = "gone"
    /\ cFreed = SumSizes(SelectSeq(cRecs, LAMBDA r : cDisk[r.path] = "gone"))

\* C15: each failed deletion is reported with its path, and the reported
\* count covers only the deletions that succeeded.
C15Original ==
  (cPc = "done" /\ Len(cRecs) > 0) =>
    /\ cFailures = {cRecs[i].path : i \in {j \in DOMAIN cRecs : cDisk[cRecs[j].path] # "gone"}}
    /\ cCount = Cardinality({i \in DOMAIN cRecs : cDisk[cRecs[i].path] = "gone"})

\* ------------------------------------------------------------------
\* findNodeModules on wider trees, where several paths can be queued
\* ------------------------------------------------------------------

MaxPoolDirs == 3

PoolNames == {"a", "b", "c", "node_modules"}

PoolInit ==
  /\ SizesIdle
  /\ PipeIdle
  /\ CleanIdle
  /\ tree \in TreesOf(MaxPoolDirs, PoolNames)
  /\ rootName = "r"
  /\ unreadable = {}
  /\ statFail \in SUBSET {p \in tree : p[Len(p)] = Target}
  /\ concurrency \in 1..MaxConc
  /\ queue = << <<>> >>
  /\ activeWorkers = 0
  /\ results = <<>>
  /\ found = <<>>
  /\ resolved = FALSE
  /\ mainPc = "init"
  /\ ret = <<>>
  /\ wPc = [w \in Workers |-> "free"]
  /\ wPath = [w \in Workers |-> <<>>]
  /\ wRest = [w \in Workers |-> <<>>]
  /\ wSubs = [w \in Workers |-> <<>>]

PoolSpec == PoolInit /\ [][ScanNext]_vars

\* C16: while the queue holds at least `concurrency` paths, exactly
\* `concurrency` workers are active.
C16Original ==
  (mainPc = "waiting" /\ Len(queue) >= concurrency) => activeWorkers = concurrency

\* C17: 0 <= activeWorkers <= concurrency, and after the initial spawn a
\* non-empty queue always has at least one live worker (one that is
\* running processPath, i.e. awaiting readdir or stat).
C17Original ==
  /\ 0 <= activeWorkers
  /\ activeWorkers <= concurrency
  /\ (mainPc # "init" /\ queue # <<>>) => \E w \in Workers : wPc[w] \in {"readdir", "stat"}

====
